---- MODULE Spec2Model ----
(***************************************************************************)
(* Model of the label sheet service of main.py: the request models and     *)
(* their validators, upload_logo and generate_label (grid planning,        *)
(* template cycling, draw_label, the drawing loop, c.save() and the        *)
(* FileResponse that is read from the fixed path OUT_PDF).                 *)
(*                                                                         *)
(* Lengths are integers in units of 1e-5 pt, so that mm_to_pt is the       *)
(* multiplication by 283465 (MM_TO_PT = 2.83465) and the float floor       *)
(* division of the source is an integer floor division.  Label sizes are   *)
(* whole millimetres.  Texts are sequences of Unicode code points.  None   *)
(* and the empty string are both falsy for every `or` and `if not v` of    *)
(* the source; they are modelled by the empty text <<>> / the empty        *)
(* string "".  Font sizes, the corner radius and the offsets inside a      *)
(* cell are not part of the state.                                         *)
(***************************************************************************)
EXTENDS Integers, Sequences, FiniteSets, TLC

VARIABLES
    fontFiles,   \* TTF files present next to main.py / in fonts/
    registered,  \* TTF font names registered with pdfmetrics
    logoFile,    \* content of LOGO_PATH
    outFile,     \* content of OUT_PDF
    upl,         \* upload_logo: the image being written, 0 when idle
    uploads,     \* number of upload_logo calls started
    pc,          \* per worker: position in generate_label
    req,         \* per worker: the GenerateRequest
    cols, rows,  \* per worker: grid
    desired,     \* per worker: cycled template list
    toGenerate,  \* per worker: number of cells to draw
    logo,        \* per worker: the ImageReader snapshot
    canvas,      \* per worker: the cells drawn so far
    lrow, lcol,  \* per worker: loop variables r and col
    count,       \* per worker: loop variable count
    response     \* per worker: what the caller received

vars == <<fontFiles, registered, logoFile, outFile, upl, uploads, pc, req, cols,
          rows, desired, toGenerate, logo, canvas, lrow, lcol, count, response>>

-----------------------------------------------------------------------------
(* Bounds *)
MaxCopies == 5
MaxTemplates == 2
MaxUploads == 1
NumWorkers == 2

Workers == 1..NumWorkers

-----------------------------------------------------------------------------
(* Program constants *)
MM_TO_PT == 283465
A4W == 59527559
A4H == 84188976
MarginMM == 6
CopiesMin == 1
CopiesMax == 35
ArabicLo == 1536
ArabicHi == 1791
ArabicSupLo == 1872
ArabicSupHi == 1919
ChSpace == 32
ChComma == 44
ChTimes == 215
ChX == 120
ChZero == 48
ChNine == 57

Min(a, b) == IF a < b THEN a ELSE b
Max(a, b) == IF a > b THEN a ELSE b

mm_to_pt(mm) == mm * MM_TO_PT

\* Python's // : floor of the quotient, for either sign of the divisor.
FloorDiv(a, b) == IF b > 0 THEN a \div b ELSE (-a) \div (-b)

-----------------------------------------------------------------------------
(* Text helpers *)
RECURSIVE Remove(_, _)
Remove(s, ch) ==
    IF s = <<>> THEN <<>>
    ELSE IF Head(s) = ch THEN Remove(Tail(s), ch)
    ELSE <<Head(s)>> \o Remove(Tail(s), ch)

\* str.isdigit(), on the ASCII digits (the inputs hold no other digit class).
IsDigit(s) == s # <<>> /\ \A i \in 1..Len(s) : s[i] >= ChZero /\ s[i] <= ChNine

PriceOk(v) ==
    IF v = <<>> THEN TRUE
    ELSE IsDigit(Remove(Remove(v, ChSpace), ChComma))

MultiplierOk(v) ==
    IF v = <<>> THEN TRUE
    ELSE IsDigit(Remove(Remove(Remove(v, ChSpace), ChTimes), ChX))

contains_arabic_NoSupplement(s) ==
    \E i \in 1..Len(s) : s[i] >= ArabicLo /\ s[i] <= ArabicHi

contains_arabic(s) ==
    \E i \in 1..Len(s) :
        \/ (s[i] >= ArabicLo /\ s[i] <= ArabicHi)
        \/ (s[i] >= ArabicSupLo /\ s[i] <= ArabicSupHi)

Or(a, b) == IF a # "" THEN a ELSE b
OrText(a, b) == IF a # <<>> THEN a ELSE b

-----------------------------------------------------------------------------
(* Request validation (pydantic) *)
width_fits_a4(v) == ~(v * MM_TO_PT > A4W)
height_fits_a4(v) == ~(v * MM_TO_PT > A4H)
CopiesOk(n) == n >= CopiesMin /\ n <= CopiesMax

TemplateItemOk(t) == PriceOk(t.price) /\ MultiplierOk(t.multiplier)

RequestValid(p) ==
    /\ CopiesOk(p.copies)
    /\ width_fits_a4(p.labelWidth)
    /\ height_fits_a4(p.labelHeight)
    /\ \A i \in 1..Len(p.templates) : TemplateItemOk(p.templates[i])

-----------------------------------------------------------------------------
(* Files and responses *)
NoBody == [kind |-> "none", owner |-> 0, cells |-> <<>>]
AbsentFile == [kind |-> "absent", owner |-> 0, cells |-> <<>>]
OldFile == [kind |-> "old", owner |-> 0, cells |-> <<>>]
PartialFile(r) == [kind |-> "partial", owner |-> r, cells |-> <<>>]
PageFile(r, cells) == [kind |-> "page", owner |-> r, cells |-> cells]

NoLogo == [kind |-> "absent", v |-> 0]
LogoImage(v) == [kind |-> "img", v |-> v]
PartialLogo(v) == [kind |-> "partial", v |-> v]
LogoError == [kind |-> "error", v |-> 0]

NoResponse == [status |-> 0, body |-> NoBody]
ErrorResponse(code) == [status |-> code, body |-> NoBody]

-----------------------------------------------------------------------------
(* Grid planning and template cycling, generate_label lines 172-193 *)
margin == mm_to_pt(MarginMM)

GridRaises(p) == mm_to_pt(p.labelWidth) = 0 \/ mm_to_pt(p.labelHeight) = 0

Cols(p) == Max(1, FloorDiv(A4W - margin, mm_to_pt(p.labelWidth)))
Rows(p) == Max(1, FloorDiv(A4H - margin, mm_to_pt(p.labelHeight)))

TemplatesMissing_Never(p) == FALSE

TemplatesMissing(p) == Len(p.templates) = 0

RECURSIVE Cycle(_, _, _, _)
Cycle(T, copies, acc, idx) ==
    IF Len(acc) < copies
    THEN Cycle(T, copies, Append(acc, T[(idx % Len(T)) + 1]), idx + 1)
    ELSE acc

BuildDesired_StartAtOne(T, copies) == Cycle(T, copies, <<>>, 1)

BuildDesired(T, copies) == Cycle(T, copies, <<>>, 0)

\* idx % len(req.templates) with an empty list and at least one copy to build
CycleRaises(p) == Len(p.templates) = 0 /\ p.copies > 0

ToGenerate(n, maxLabels) == Min(n, maxLabels)

-----------------------------------------------------------------------------
(* Colours, generate_label lines 197-204, 235-236 *)
PrimaryRgb(p) == Or(p.style.primaryColor, "D4AF37")
AccentRgb(p) == Or(p.style.accentColor, "080808")
BorderRgb(p) == Or(p.style.borderColor, Or(p.style.primaryColor, "D4AF37"))

-----------------------------------------------------------------------------
(* Fonts *)
StandardFonts == {"Helvetica", "Helvetica-Bold", "Times-Italic", "Courier"}
TtfNames == {"Amiri", "Playfair", "Cinzel"}

\* c.setFont(f, size) inside try, the fallback inside except
SetFont(f, fallback, reg) == IF f \in StandardFonts \cup reg THEN f ELSE fallback

NameFont(pname, fs, reg, files) ==
    SetFont(IF contains_arabic(pname) /\ "Amiri" \in reg THEN "Amiri"
            ELSE IF "Playfair" \in files THEN "Playfair"
            ELSE IF "Cinzel" \in files THEN "Cinzel"
            ELSE Or(fs.perfumeFont, "Helvetica-Bold"),
            "Helvetica-Bold", reg)

ShopFont(text, fs, reg) ==
    SetFont(IF contains_arabic(text) /\ "Amiri" \in reg THEN "Amiri"
            ELSE Or(fs.shopFont, "Times-Italic"),
            "Times-Italic", reg)

-----------------------------------------------------------------------------
(* draw_label, lines 255-397, and the cell origin, lines 405-406 *)
CellX_NoMargin(p, col) == col * mm_to_pt(p.labelWidth)

CellX(p, col) == margin + col * mm_to_pt(p.labelWidth)
CellY(p, r) == A4H - margin - mm_to_pt(p.labelHeight) - r * mm_to_pt(p.labelHeight)

draw_label(p, x, y, tpl, lg, reg, files) ==
    LET fs == p.fontSettings
        shop_text == OrText(tpl.shopName, p.shopName)
        price_txt == OrText(tpl.price, p.price)
        mult_txt == OrText(tpl.multiplier, p.quantity)
    IN [x |-> x, y |-> y, tpl |-> tpl,
        fill |-> AccentRgb(p),
        stroke |-> PrimaryRgb(p),
        logo |-> lg,
        nameFont |-> NameFont(tpl.perfumeName, fs, reg, files),
        pname |-> tpl.perfumeName,
        shopFont |-> ShopFont(shop_text, fs, reg),
        shopText |-> shop_text,
        priceDrawn |-> price_txt # <<>>,
        priceText |-> price_txt,
        qtyDrawn |-> mult_txt # <<>>,
        qtyText |-> mult_txt,
        extraDrawn |-> tpl.extraInfo # <<>>,
        extraFont |-> IF tpl.extraInfo # <<>>
                      THEN ShopFont(tpl.extraInfo, fs, reg) ELSE "",
        extra |-> tpl.extraInfo]

-----------------------------------------------------------------------------
(* Inputs *)
Oud == <<79, 117, 100>>
Musk == <<77, 117, 115, 107>>
ShopA == <<83, 104, 111, 112>>

TemplateItem(name, price, mult, shop, extra) ==
    [perfumeName |-> name, price |-> price, multiplier |-> mult,
     shopName |-> shop, extraInfo |-> extra]

TplOud == TemplateItem(Oud, <<49, 53, 48, 48>>, <<50>>, ShopA, <<>>)
TplMusk == TemplateItem(Musk, <<57, 48, 48>>, <<>>, <<>>, <<>>)

FontSettings(perfume, shop) ==
    [perfumeFont |-> perfume, shopFont |-> shop,
     priceFont |-> "Helvetica-Bold", quantityFont |-> "Helvetica"]

StyleSettings(primary, accent, border) ==
    [primaryColor |-> primary, accentColor |-> accent, borderColor |-> border]

GenerateRequest(copies, w, h, fs, tpls, style) ==
    [shopName |-> <<>>, copies |-> copies, labelWidth |-> w, labelHeight |-> h,
     fontSettings |-> fs, templates |-> tpls, price |-> <<>>, quantity |-> <<>>,
     style |-> style]

DefaultFonts == FontSettings("Helvetica-Bold", "Times-Italic")
DefaultStyle == StyleSettings("D4AF37", "080808", "")
DefaultReq == GenerateRequest(1, 100, 140, DefaultFonts, <<TplOud>>, DefaultStyle)
EmptyReq == GenerateRequest(0, 0, 0, DefaultFonts, <<>>, DefaultStyle)

\* label sizes in mm: degenerate, negative, many cells, 2x2, 1x1, too wide, too high
LabelSizes == {<<0, 50>>, <<50, 0>>, <<-5, 50>>, <<40, 40>>, <<100, 140>>,
               <<200, 290>>, <<210, 100>>, <<100, 297>>}

TemplateLists == UNION {[1..n -> {TplOud, TplMusk}] : n \in 0..MaxTemplates}

LayoutRequests ==
    {GenerateRequest(n, wh[1], wh[2], DefaultFonts, T, DefaultStyle) :
        n \in (0..MaxCopies) \cup {CopiesMax, CopiesMax + 1},
        wh \in LabelSizes, T \in TemplateLists}

\* "A", U+0600, "A" U+077F, the neighbours of both ranges, U+06FF U+0750
FieldTexts == {<<>>, <<65>>, <<1536>>, <<65, 1919>>, <<1535, 1792, 1871, 1920>>}
TitleTexts == FieldTexts \cup {<<1791>>, <<1872>>}
FontNames == {"", "Courier", "Cinzel", "NoSuchFont"}

FontRequests ==
    {[DefaultReq EXCEPT
        !.fontSettings = FontSettings(pf, sf),
        !.templates = <<TemplateItem(t, <<>>, <<>>, s, e)>>] :
        t \in TitleTexts, s \in FieldTexts, e \in FieldTexts,
        pf \in FontNames, sf \in FontNames \ {"Cinzel"}}

\* the request's own shopName, used when the template has none (line 322)
ShopNameRequests ==
    {[DefaultReq EXCEPT
        !.shopName = sn,
        !.templates = <<TemplateItem(Oud, <<>>, <<>>, s, <<>>)>>] :
        sn \in {<<1575>>, ShopA}, s \in {<<>>, ShopA, <<1576>>}}

\* "", "1000", "1,000", "1 000", "12a", " "
PriceTexts == {<<>>, <<49, 48, 48, 48>>, <<49, 44, 48, 48, 48>>,
               <<49, 32, 48, 48, 48>>, <<49, 50, 97>>, <<32>>}
\* "", "3", "×3", "x 3", "×", "3y"
MultiplierTexts == {<<>>, <<51>>, <<215, 51>>, <<120, 32, 51>>, <<215>>, <<51, 121>>}

NumericRequests ==
    {[DefaultReq EXCEPT
        !.price = rp, !.quantity = rq,
        !.templates = <<TemplateItem(Oud, pr, mu, ShopA, <<>>)>>] :
        pr \in PriceTexts, mu \in MultiplierTexts,
        rp \in {<<>>, <<53, 44, 53>>}, rq \in {<<>>, <<120, 50>>}}

StyleRequests ==
    {[DefaultReq EXCEPT !.copies = 3, !.style = StyleSettings(pc0, ac, bc)] :
        pc0 \in {"", "D4AF37", "0000FF"}, ac \in {"", "101010"},
        bc \in {"", "FF0000", "0000FF"}}

RenderRequests == FontRequests \cup ShopNameRequests \cup NumericRequests \cup StyleRequests

ConcurrentRequests ==
    {[DefaultReq EXCEPT !.copies = n, !.templates = <<t>>] :
        n \in {1, 3}, t \in {TplOud, TplMusk}}

-----------------------------------------------------------------------------
(* Initial states: the process after import, lines 44-51 *)
InitWorkers ==
    /\ pc = [r \in Workers |-> "idle"]
    /\ req = [r \in Workers |-> EmptyReq]
    /\ cols = [r \in Workers |-> 0]
    /\ rows = [r \in Workers |-> 0]
    /\ desired = [r \in Workers |-> <<>>]
    /\ toGenerate = [r \in Workers |-> 0]
    /\ logo = [r \in Workers |-> NoLogo]
    /\ canvas = [r \in Workers |-> [open |-> FALSE, cells |-> <<>>]]
    /\ lrow = [r \in Workers |-> 0]
    /\ lcol = [r \in Workers |-> 0]
    /\ count = [r \in Workers |-> 0]
    /\ response = [r \in Workers |-> NoResponse]
    /\ upl = 0
    /\ uploads = 0

RegisteredAtImport(files) == files \cap {"Amiri"}

InitLayout ==
    /\ InitWorkers
    /\ fontFiles = {}
    /\ registered = RegisteredAtImport(fontFiles)
    /\ logoFile \in {NoLogo, LogoImage(0)}
    /\ outFile \in {AbsentFile, OldFile}

InitRender ==
    /\ InitWorkers
    /\ fontFiles \in SUBSET TtfNames
    /\ registered = RegisteredAtImport(fontFiles)
    /\ logoFile = LogoImage(0)
    /\ outFile = AbsentFile

InitConc ==
    /\ InitWorkers
    /\ fontFiles = {}
    /\ registered = RegisteredAtImport(fontFiles)
    /\ logoFile \in {NoLogo, LogoImage(0)}
    /\ outFile \in {AbsentFile, OldFile}

-----------------------------------------------------------------------------
(* generate_label *)
Fail(r, code) ==
    /\ pc' = [pc EXCEPT ![r] = "done"]
    /\ response' = [response EXCEPT ![r] = ErrorResponse(code)]

\* The request arrives and pydantic validates it (lines 55-138, 155-162).
Receive(r, p) ==
    /\ pc[r] = "idle"
    /\ req' = [req EXCEPT ![r] = p]
    /\ IF RequestValid(p)
       THEN pc' = [pc EXCEPT ![r] = "start"] /\ UNCHANGED response
       ELSE Fail(r, 422)
    /\ UNCHANGED <<fontFiles, registered, logoFile, outFile, upl, uploads, cols, rows,
                   desired, toGenerate, logo, canvas, lrow, lcol, count>>

\* ImageReader(LOGO_PATH) if os.path.exists(LOGO_PATH) else None (line 240).
\* A file that upload_logo is still writing is read as it is, or fails to open.
LogoOutcomes(file) ==
    IF file.kind = "partial" THEN {file, LogoError} ELSE {file}

\* Lines 167-243: template check, grid, sequence, fonts, logo, canvas.
Prepare(r) ==
    /\ pc[r] = "start"
    /\ LET p == req[r] IN
       IF TemplatesMissing(p)
       THEN /\ Fail(r, 400)
            /\ UNCHANGED <<registered, cols, rows, desired, toGenerate, logo, canvas>>
       ELSE IF GridRaises(p) \/ CycleRaises(p)
       THEN /\ Fail(r, 500)
            /\ UNCHANGED <<registered, cols, rows, desired, toGenerate, logo, canvas>>
       ELSE \E lg \in LogoOutcomes(logoFile) :
            /\ registered' = registered \cup fontFiles
            /\ cols' = [cols EXCEPT ![r] = Cols(p)]
            /\ rows' = [rows EXCEPT ![r] = Rows(p)]
            /\ desired' = [desired EXCEPT ![r] = BuildDesired(p.templates, p.copies)]
            /\ toGenerate' = [toGenerate EXCEPT ![r] =
                   ToGenerate(Len(BuildDesired(p.templates, p.copies)),
                              Cols(p) * Rows(p))]
            /\ IF lg = LogoError
               THEN Fail(r, 500) /\ UNCHANGED <<logo, canvas>>
               ELSE /\ logo' = [logo EXCEPT ![r] = lg]
                    /\ canvas' = [canvas EXCEPT ![r] = [open |-> TRUE, cells |-> <<>>]]
                    /\ pc' = [pc EXCEPT ![r] = "draw"]
                    /\ UNCHANGED response
    /\ UNCHANGED <<fontFiles, logoFile, outFile, upl, uploads, req, lrow, lcol, count>>

\* One pass of the inner loop body that draws (lines 403-408).
DrawCell(r) ==
    /\ pc[r] = "draw"
    /\ lrow[r] < rows[r] /\ lcol[r] < cols[r]
    /\ count[r] < toGenerate[r]
    /\ canvas' = [canvas EXCEPT ![r].cells =
           Append(@, draw_label(req[r], CellX(req[r], lcol[r]), CellY(req[r], lrow[r]),
                                desired[r][count[r] + 1], logo[r], registered,
                                fontFiles))]
    /\ count' = [count EXCEPT ![r] = @ + 1]
    /\ lcol' = [lcol EXCEPT ![r] = @ + 1]
    /\ UNCHANGED <<fontFiles, registered, logoFile, outFile, upl, uploads, pc, req, cols,
                   rows, desired, toGenerate, logo, lrow, response>>

\* The inner loop ran out of columns with cells left to draw (lines 401-402, 409).
NextRow(r) ==
    /\ pc[r] = "draw"
    /\ lrow[r] < rows[r] /\ lcol[r] = cols[r]
    /\ count[r] < toGenerate[r]
    /\ lrow' = [lrow EXCEPT ![r] = @ + 1]
    /\ lcol' = [lcol EXCEPT ![r] = 0]
    /\ UNCHANGED <<fontFiles, registered, logoFile, outFile, upl, uploads, pc, req, cols,
                   rows, desired, toGenerate, logo, canvas, count, response>>

\* Both breaks, or the rows are used up; c.save() opens OUT_PDF for writing
\* (lines 403-404, 409-412).
SaveOpen(r) ==
    /\ pc[r] = "draw"
    /\ count[r] >= toGenerate[r] \/ lrow[r] >= rows[r]
    /\ outFile' = PartialFile(r)
    /\ pc' = [pc EXCEPT ![r] = "save"]
    /\ UNCHANGED <<fontFiles, registered, logoFile, upl, uploads, req, cols, rows, desired,
                   toGenerate, logo, canvas, lrow, lcol, count, response>>

\* c.save() writes the document and closes the file (line 412).
SaveWrite(r) ==
    /\ pc[r] = "save"
    /\ outFile' = PageFile(r, canvas[r].cells)
    /\ pc' = [pc EXCEPT ![r] = "saved"]
    /\ UNCHANGED <<fontFiles, registered, logoFile, upl, uploads, req, cols, rows, desired,
                   toGenerate, logo, canvas, lrow, lcol, count, response>>

\* FileResponse(OUT_PDF): the body is read from the path when it is sent (line 413).
Respond(r) ==
    /\ pc[r] = "saved"
    /\ response' = [response EXCEPT ![r] = [status |-> 200, body |-> outFile]]
    /\ pc' = [pc EXCEPT ![r] = "done"]
    /\ UNCHANGED <<fontFiles, registered, logoFile, outFile, upl, uploads, req, cols, rows,
                   desired, toGenerate, logo, canvas, lrow, lcol, count>>

-----------------------------------------------------------------------------
(* upload_logo, lines 141-148 *)
\* open(LOGO_PATH, "wb") truncates the file; copyfileobj then fills it.
UploadOpen ==
    /\ upl = 0
    /\ uploads < MaxUploads
    /\ uploads' = uploads + 1
    /\ upl' = uploads + 1
    /\ logoFile' = PartialLogo(uploads + 1)
    /\ UNCHANGED <<fontFiles, registered, outFile, pc, req, cols, rows, desired,
                   toGenerate, logo, canvas, lrow, lcol, count, response>>

UploadClose ==
    /\ upl # 0
    /\ logoFile' = LogoImage(upl)
    /\ upl' = 0
    /\ UNCHANGED <<fontFiles, registered, outFile, uploads, pc, req, cols, rows, desired,
                   toGenerate, logo, canvas, lrow, lcol, count, response>>

-----------------------------------------------------------------------------
(* Specifications *)
Handle(r) ==
    \/ Prepare(r)
    \/ DrawCell(r)
    \/ NextRow(r)
    \/ SaveOpen(r)
    \/ SaveWrite(r)
    \/ Respond(r)

ReceiveLayout == \E p \in LayoutRequests : Receive(1, p)
ReceiveRender == \E p \in RenderRequests : Receive(1, p)
ReceiveConcurrent == \E r \in Workers : \E p \in ConcurrentRequests : Receive(r, p)

NextLayout == ReceiveLayout \/ \E r \in Workers : Handle(r)
NextRender == ReceiveRender \/ \E r \in Workers : Handle(r)
NextConc == ReceiveConcurrent \/ UploadOpen \/ UploadClose \/ \E r \in Workers : Handle(r)

SpecLayout == InitLayout /\ [][NextLayout]_vars
SpecRender == InitRender /\ [][NextRender]_vars
SpecConc == InitConc /\ [][NextConc]_vars

-----------------------------------------------------------------------------
(* Properties *)
Cells(r) == canvas[r].cells
LoopLeft(r) == pc[r] \in {"save", "saved", "done"}
LabelW(r) == req[r].labelWidth * MM_TO_PT
LabelH(r) == req[r].labelHeight * MM_TO_PT

\* C1: once a render has its sequence, the number of cells to render is
\* min(copies, columns*rows) and entry i of the sequence is T[i mod len(T)],
\* counting from 0; the finished canvas shows exactly these entries in order.
C1_CyclicSequence ==
    \A r \in Workers :
        canvas[r].open =>
            LET T == req[r].templates
                n == Min(req[r].copies, cols[r] * rows[r])
            IN /\ toGenerate[r] = n
               /\ Len(desired[r]) >= n
               /\ \A i \in 0..(n - 1) : desired[r][i + 1] = T[(i % Len(T)) + 1]
               /\ LoopLeft(r) =>
                    /\ Len(Cells(r)) = n
                    /\ \A i \in 0..(n - 1) : Cells(r)[i + 1].tpl = T[(i % Len(T)) + 1]

\* C1 witness: two different templates, more copies than cells, the page is
\* saved with the list wrapped around and cut to the grid.
C1_Witness ==
    \E r \in Workers :
        /\ pc[r] = "saved"
        /\ Len(req[r].templates) = 2
        /\ req[r].templates[1] # req[r].templates[2]
        /\ req[r].copies > cols[r] * rows[r]
        /\ Len(Cells(r)) = 4

\* C2: the k-th drawn cell (k from 0) shows sequence entry k at row k div columns,
\* column k mod columns, with x = margin + c*cellWidth and
\* y = pageHeight - margin - cellHeight - r*cellHeight; when the loop is left
\* exactly min(copies, columns*rows) cells are drawn and the call does not fail.
C2_RowMajorCells ==
    \A r \in Workers :
        canvas[r].open =>
            /\ \A k \in 0..(Len(Cells(r)) - 1) :
                   /\ Cells(r)[k + 1].tpl = desired[r][k + 1]
                   /\ Cells(r)[k + 1].x = margin + (k % cols[r]) * LabelW(r)
                   /\ Cells(r)[k + 1].y =
                          A4H - margin - LabelH(r) - (k \div cols[r]) * LabelH(r)
            /\ Len(Cells(r)) <= Min(req[r].copies, cols[r] * rows[r])
            /\ LoopLeft(r) => Len(Cells(r)) = Min(req[r].copies, cols[r] * rows[r])
            /\ pc[r] = "done" => response[r].status = 200

\* C2 witness: more copies than a grid of several rows holds; the call is
\* answered with every grid position drawn.
C2_Witness ==
    \E r \in Workers :
        /\ pc[r] = "done"
        /\ response[r].status = 200
        /\ rows[r] > 1 /\ cols[r] > 1
        /\ req[r].copies > cols[r] * rows[r]
        /\ Len(Cells(r)) = cols[r] * rows[r]

\* C3: a request that validation accepts, with templates, gets its grid without
\* an error: columns = max(1, floor((pageWidth - margin) / cellWidth)) >= 1 and
\* rows likewise.
C3_GridNeverFails ==
    \A r \in Workers :
        (pc[r] \notin {"idle", "start"} /\ RequestValid(req[r]) /\ req[r].templates # <<>>)
            => /\ response[r].status # 500
               /\ cols[r] = Max(1, FloorDiv(A4W - margin, LabelW(r)))
               /\ rows[r] = Max(1, FloorDiv(A4H - margin, LabelH(r)))
               /\ cols[r] >= 1 /\ rows[r] >= 1

\* C4: a request with an empty template list ends in a validation error (400, or
\* 422 from request validation), whatever its copies; the step that rejects it
\* opens no canvas, draws nothing and leaves the output file as it was.
C4_EmptyTemplatesRejected ==
    [][\A r \in Workers :
          (req'[r].templates = <<>> /\ pc[r] \in {"idle", "start"} /\ pc'[r] # pc[r])
              => /\ pc[r] = "start" => pc'[r] = "done"
                 /\ pc'[r] \in {"start", "done"}
                 /\ pc'[r] = "done" => response'[r].status \in {400, 422}
                 /\ ~canvas'[r].open /\ canvas'[r].cells = <<>>
                 /\ outFile' = outFile]_vars

\* C4 witness: an empty list with a copies value in range was rejected by the
\* handler while an earlier page lies in the output file.
C4_Witness ==
    \E r \in Workers :
        /\ pc[r] = "done"
        /\ req[r].templates = <<>>
        /\ req[r].copies = CopiesMax
        /\ response[r].status = 400
        /\ outFile = OldFile

InArabicBlocks(s) ==
    \E i \in 1..Len(s) : s[i] \in (1536..1791) \cup (1872..1919)

\* C5: with the Arabic font registered, every drawn title, subtitle and extra
\* line whose text has a code point in U+0600-U+06FF or U+0750-U+077F is set in
\* the Arabic font, whatever was requested and whatever else is registered.
C5_ArabicFontPerField ==
    \A r \in Workers : \A k \in 1..Len(Cells(r)) :
        LET c == Cells(r)[k] IN
        "Amiri" \in registered =>
            /\ InArabicBlocks(c.pname) => c.nameFont = "Amiri"
            /\ InArabicBlocks(c.shopText) => c.shopFont = "Amiri"
            /\ (c.extraDrawn /\ InArabicBlocks(c.extra)) => c.extraFont = "Amiri"

\* C5 witness: a title mixing Latin with U+077F is set in the Arabic font although
\* another family was requested and Playfair is registered, while the Latin
\* subtitle of the same cell is not.
C5_Witness ==
    \E r \in Workers : \E k \in 1..Len(Cells(r)) :
        LET c == Cells(r)[k] IN
        /\ c.pname = <<65, 1919>>
        /\ c.nameFont = "Amiri"
        /\ req[r].fontSettings.perfumeFont = "Courier"
        /\ "Playfair" \in registered
        /\ c.shopText = <<65>>
        /\ c.shopFont # "Amiri"
        /\ c.extraDrawn /\ c.extra = <<1536>> /\ c.extraFont = "Amiri"

Requested(f, baseline) == IF f \in StandardFonts \cup registered THEN f ELSE baseline

\* C6: a field the Arabic rule does not apply to is drawn in the family the
\* caller requested for its role when that family is registered, else in the
\* baseline family; this holds for the title, the subtitle and the extra line.
C6_RequestedFamily ==
    \A r \in Workers : \A k \in 1..Len(Cells(r)) :
        LET c == Cells(r)[k]
            fs == req[r].fontSettings
            rule(t) == InArabicBlocks(t) /\ "Amiri" \in registered
        IN /\ ~rule(c.pname) => c.nameFont = Requested(fs.perfumeFont, "Helvetica-Bold")
           /\ ~rule(c.shopText) => c.shopFont = Requested(fs.shopFont, "Times-Italic")
           /\ (c.extraDrawn /\ ~rule(c.extra))
                  => c.extraFont = Requested(fs.shopFont, "Times-Italic")

\* C7: the price drawn holds no space and no comma, the quantity drawn no space
\* and no multiplier glyph, so "1,000" draws as "1000" and "×3" as "3".
C7_SanitizedAtRender ==
    \A r \in Workers : \A k \in 1..Len(Cells(r)) :
        LET c == Cells(r)[k] IN
        /\ c.priceDrawn => \A i \in 1..Len(c.priceText) : c.priceText[i] \notin {32, 44}
        /\ c.qtyDrawn => \A i \in 1..Len(c.qtyText) : c.qtyText[i] \notin {32, 215, 120}

\* C8: a finished call returned either an error without a page, or the complete
\* page of its own render.
C8_AllOrNothing ==
    \A r \in Workers :
        pc[r] = "done" =>
            \/ response[r].status # 200 /\ response[r].body = NoBody
            \/ response[r].status = 200 /\ response[r].body = PageFile(r, Cells(r))

\* C9: the logo a render holds is a complete image (or none), never one that
\* upload_logo is still writing, and every cell of the page uses it.
C9_LogoSnapshot ==
    \A r \in Workers :
        canvas[r].open =>
            /\ logo[r].kind \in {"absent", "img"}
            /\ \A k \in 1..Len(Cells(r)) : Cells(r)[k].logo = logo[r]

\* C10: the border of every cell is stroked with borderColor when the request
\* sets one, and with primaryColor when it does not.
C10_BorderColor ==
    \A r \in Workers : \A k \in 1..Len(Cells(r)) :
        Cells(r)[k].stroke =
            IF req[r].style.borderColor # "" THEN req[r].style.borderColor
            ELSE Or(req[r].style.primaryColor, "D4AF37")

====
